---- MODULE Spec2Model ----
(***************************************************************************)
(* A model of script.js: the debounce utility and the page widgets         *)
(* MobileMenu, SmoothScroll, ScrollHeader, ScrollReveal and                *)
(* ActiveSectionHighlighter, each driven by the events the browser         *)
(* dispatches to the listeners the widget registers.                       *)
(*                                                                         *)
(* Time is kept relative: every pending timer carries the time that is     *)
(* left before it is due, and `elapsed` is the time since the most recent  *)
(* call of the debounced wrapper.  A timer that is due runs when the event *)
(* loop gets to it, which may be later than the moment it became due.      *)
(***************************************************************************)
EXTENDS Integers, Sequences, FiniteSets, TLC

VARIABLES
    \* debounce (one wrapper: the scroll listener of ScrollHeader)
    wait,          \* the wait argument of debounce
    timers,        \* the browser's list of active timers: [id, remaining, args]
    timeout,       \* the closure variable `timeout`: id of the last timer set, 0 = undefined
    elapsed,       \* time since the most recent call of the wrapper, saturating at wait
    lastArgs,      \* arguments of the most recent call of the wrapper, 0 = never called
    burstCalls,    \* history: calls in the current burst (each < wait after the previous)
    burstExecs,    \* history: executions of func since the current burst began
    burstMissed,   \* history: some burst ended with a number of executions other than 1
    lateCancel,    \* history: some call cleared a timer that was already due
    lastExec,      \* history: the last execution of func, or NoExec
    burstArgs,     \* history: the arguments of the calls of the current burst
    ahead,         \* history: calls of the wrapper minus executions of func, saturating
    \* ScrollHeader
    hasHeader,     \* $('header') found an element
    scrollY,       \* window.scrollY
    scrolled,      \* header.classList.contains('scrolled')
    scen,          \* history: progress through the scenario 0 -> 150 -> 50
    marks,         \* history: the marker changes made during the scenario
    execAt150,     \* history: func ran while the scenario was at offset 150
    \* the document
    present,       \* which elements of Document are in the page
    \* MobileMenu
    hasToggle,     \* $('.mobile-menu-toggle') found an element
    hasMenu,       \* $('.nav-links') found an element
    toggleActive,  \* toggle.classList.contains('active')
    menuActive,    \* menu.classList.contains('active')
    bodyOverflow,  \* document.body.style.overflow
    \* event dispatch (MobileMenu and SmoothScroll listeners)
    lastEvent,     \* the event dispatched last
    eventTick,     \* flips at every dispatched click or keydown
    clickResult,   \* what the SmoothScroll listener did with the last click
    menuError,     \* a MobileMenu listener threw on the last event
    \* ScrollReveal
    visible,       \* element -> classList.contains('visible')
    everSeen,      \* history: element -> some callback reported it intersecting
    leftView,      \* history: element -> reported not intersecting while marked visible
    \* ActiveSectionHighlighter
    navHrefs,      \* href of each link of $$('.nav-links a[href^="#"]'), in document order
    linkActive,    \* link -> classList.contains('active')
    lastSection,   \* history: id of the most recently intersecting section, or NoSection
    \* App
    docPhase,      \* the document: "loading", "interactive" (DOMContentLoaded not yet
                   \* dispatched), "ready" (dispatched), "complete"
    appState,      \* "none" (script not run), "waiting" (listener registered), "started"
    built,         \* widget -> how many times it has been constructed
    builtEarly,    \* history: a widget was constructed while the document was loading
    deferred,      \* history: init() registered the DOMContentLoaded listener
    \* TypingEffect
    words,         \* this.words, each word a sequence of characters
    wordIndex,     \* this.wordIndex
    charIndex,     \* this.charIndex
    isDeleting,    \* this.isDeleting
    textLen,       \* length of element.textContent
    typeError      \* type() threw

debVars == <<wait, timers, timeout, elapsed, lastArgs, burstCalls, burstExecs,
             burstMissed, lateCancel, lastExec, ahead, burstArgs>>
hdrVars == <<hasHeader, scrollY, scrolled, scen, marks, execAt150>>
docVars == <<present>>
menuVars == <<hasToggle, hasMenu, toggleActive, menuActive, bodyOverflow>>
evtVars == <<lastEvent, eventTick, clickResult, menuError>>
revVars == <<visible, everSeen, leftView>>
actVars == <<navHrefs, linkActive, lastSection>>
appVars == <<docPhase, appState, built, builtEarly, deferred>>
typVars == <<words, wordIndex, charIndex, isDeleting, textLen, typeError>>
vars == <<debVars, hdrVars, docVars, menuVars, evtVars, revVars, actVars, appVars, typVars>>

Min(a, b) == IF a < b THEN a ELSE b
Max(a, b) == IF a > b THEN a ELSE b

(***************************************************************************)
(* Bounds of the model.                                                    *)
(***************************************************************************)
MaxWait == 3        \* debounce is checked for every wait in 1..MaxWait
MaxBurst == 3       \* calls counted in one burst (the count saturates)
MaxArgs == 2        \* distinct argument values of the wrapper
MaxFrag == 3        \* characters after the '#' of an href
MaxEntries == 2     \* entries carried by one IntersectionObserver callback
NumLinks == 2       \* navigation links of the page
NumReveal == 3      \* elements of $$('.fade-in')
MaxWords == 2       \* words given to TypingEffect
MaxWordLen == 2     \* characters of a word

(***************************************************************************)
(* Program constants.                                                      *)
(***************************************************************************)
scrollThreshold == 100   \* ScrollHeader.scrollThreshold
HeaderWait == 10         \* the wait ScrollHeader passes to debounce
ClearanceMargin == 100   \* SmoothScroll: target.offsetTop - 100

WaitSet == 1..MaxWait
ArgSet == 1..MaxArgs
ScrollOffsets == {0, 50, 100, 150}

NoExec == [s |-> -1, before |-> FALSE, after |-> FALSE, gap |-> -1, args |-> 0, latest |-> 0]

(***************************************************************************)
(* debounce (script.js 13-23)                                              *)
(***************************************************************************)
\* mutant: clearTimeout does nothing
clearTimeout_Noop(ts, id) == ts

\* clearTimeout(id): the timer with that id leaves the list of active timers;
\* an id that is not active (undefined, fired or cleared) is ignored.
clearTimeout(ts, id) == {t \in ts : t.id # id}

\* mutant: the timer is set with no delay
TimerDelay_None(w) == 0

\* the delay setTimeout(later, wait) is given
TimerDelay(w) == w

\* a timer id that no active timer and not `timeout` carries
FreshId(ts, last) ==
    CHOOSE i \in 1..(Cardinality(ts) + 2) : i # last /\ \A t \in ts : t.id # i

\* mutant: `later` keeps the arguments of the call before this one
setTimeout_StaleArgs(ts, id, w, args) ==
    ts \cup {[id |-> id, remaining |-> w,
              args |-> IF lastArgs # 0 THEN lastArgs ELSE args]}

\* setTimeout(later, wait), `later` closing over args: the list with the new timer
setTimeout(ts, id, w, args) ==
    ts \cup {[id |-> id, remaining |-> TimerDelay(w), args |-> args]}

\* the call belongs to the burst of the previous call: it comes < wait after it
InBurst == burstCalls > 0 /\ elapsed < wait

\* executedFunction(...args), lines 15-22
executedFunction(args) ==
    LET cleared == clearTimeout(timers, timeout)
        id == FreshId(timers, timeout)
    IN  /\ timers' = setTimeout(cleared, id, wait, args)
        /\ timeout' = id
        /\ elapsed' = 0
        /\ lastArgs' = args
        /\ burstCalls' = IF InBurst THEN Min(burstCalls + 1, MaxBurst) ELSE 1
        /\ burstExecs' = IF InBurst THEN burstExecs ELSE 0
        /\ burstMissed' = (burstMissed \/ (burstCalls > 0 /\ ~InBurst /\ burstExecs # 1))
        /\ lateCancel' = (lateCancel \/ \E t \in timers : t.id = timeout /\ t.remaining = 0)
        /\ ahead' = Min(ahead + 1, MaxBurst)
        /\ burstArgs' = IF InBurst THEN burstArgs \cup {args} ELSE {args}
        /\ UNCHANGED <<wait, lastExec>>

\* the marker after the callback of ScrollHeader has run with offset s (lines 124-128)
\* mutant: the comparison is >=
ScrolledAfter_Geq(s, cur) == s >= scrollThreshold

\* mutant: the else branch is missing, the marker is never removed
ScrolledAfter_NoRemove(s, cur) == cur \/ s > scrollThreshold

\* mutant: the callback leaves the marker as it is
ScrolledAfter_Keep(s, cur) == cur

ScrolledAfter(s, cur) == s > scrollThreshold

\* the marker changes the scenario records for one run of the callback
MarkChange(before, after) ==
    IF before = after THEN <<>> ELSE IF after THEN <<"add">> ELSE <<"remove">>

\* later(), lines 16-19: a due timer runs; it clears `timeout` and calls func(...args),
\* here the callback of ScrollHeader (lines 123-129)
later(t) ==
    /\ t \in timers
    /\ t.remaining = 0
    /\ timers' = clearTimeout(timers \ {t}, timeout)
    /\ scrolled' = ScrolledAfter(scrollY, scrolled)
    /\ burstExecs' = Min(burstExecs + 1, 2)
    /\ lastExec' = [s |-> scrollY, before |-> scrolled, after |-> scrolled',
                    gap |-> elapsed, args |-> t.args, latest |-> lastArgs]
    /\ ahead' = ahead - 1
    /\ marks' = IF scen \in {"at150", "back50"}
                THEN marks \o MarkChange(scrolled, scrolled') ELSE marks
    /\ execAt150' = (execAt150 \/ scen = "at150")
    /\ UNCHANGED <<wait, timeout, elapsed, lastArgs, burstCalls, burstMissed, lateCancel,
                   burstArgs>>
    /\ UNCHANGED <<hasHeader, scrollY, scen>>
    /\ UNCHANGED <<docVars, menuVars, evtVars, revVars, actVars, appVars, typVars>>

TimerFire == \E t \in timers : later(t)

\* time passes by one unit: every active timer comes closer to being due
Tick ==
    /\ burstCalls > 0
    /\ elapsed < wait \/ \E t \in timers : t.remaining > 0
    /\ timers' = {[t EXCEPT !.remaining = Max(0, @ - 1)] : t \in timers}
    /\ elapsed' = Min(elapsed + 1, wait)
    /\ UNCHANGED <<wait, timeout, lastArgs, burstCalls, burstExecs, burstMissed,
                   lateCancel, lastExec, ahead, burstArgs>>
    /\ UNCHANGED <<hdrVars, docVars, menuVars, evtVars, revVars, actVars, appVars, typVars>>

(***************************************************************************)
(* ScrollHeader (script.js 113-131)                                        *)
(***************************************************************************)
ScenStep(sc, y) ==
    CASE sc = "init0" /\ y = 150 -> "at150"
      [] sc = "at150" /\ y = 50 -> "back50"
      [] OTHER -> "off"

\* the page is scrolled to offset y and the scroll event e is dispatched; the
\* listener exists only if the header was found (line 121)
Scroll(y, e) ==
    /\ scrollY' = y
    /\ scen' = ScenStep(scen, y)
    /\ marks' = IF scen' = "off" THEN <<>> ELSE marks
    /\ execAt150' = (execAt150 /\ scen' # "off")
    /\ IF hasHeader THEN executedFunction(e) ELSE UNCHANGED debVars
    /\ UNCHANGED <<hasHeader, scrolled>>
    /\ UNCHANGED <<docVars, menuVars, evtVars, revVars, actVars, appVars, typVars>>

ScrollEvent == \E y \in ScrollOffsets, e \in ArgSet : Scroll(y, e)

(***************************************************************************)
(* The document: strings are sequences of characters, so that an href can  *)
(* be read as the CSS selector $(href) hands to querySelector.             *)
(***************************************************************************)
Chars == {"a", "1", "."}
IsLetter(c) == c = "a"
IsDigit(c) == c = "1"

\* the elements a page may hold, in document order
Document == <<
    [id |-> <<"a">>,           cls |-> {<<"a">>}, offsetTop |-> 0,   section |-> TRUE],
    [id |-> <<"1">>,           cls |-> {},        offsetTop |-> 300, section |-> TRUE],
    [id |-> <<"a", ".", "a">>, cls |-> {},        offsetTop |-> 600, section |-> TRUE],
    [id |-> <<"a", "a">>,      cls |-> {},        offsetTop |-> 900, section |-> FALSE] >>

Frags == UNION {[1..n -> Chars] : n \in 0..MaxFrag}
Hash(id) == <<"#">> \o id
\* the href values of the page's anchors: every '#...' and one that is no hash link
Hrefs == {Hash(f) : f \in Frags} \cup {<<"a">>}
IsHashHref(h) == h # <<>> /\ h[1] = "#"

\* s cut at every '.'
RECURSIVE SplitDot(_)
SplitDot(s) ==
    IF s = <<>> THEN << <<>> >>
    ELSE LET r == SplitDot(Tail(s))
         IN  IF Head(s) = "." THEN << <<>> >> \o r
             ELSE << <<Head(s)>> \o Head(r) >> \o Tail(r)

\* a CSS identifier over Chars: a letter, then letters and digits
IsIdent(p) ==
    /\ p # <<>>
    /\ IsLetter(p[1])
    /\ \A i \in DOMAIN p : IsLetter(p[i]) \/ IsDigit(p[i])

SyntaxError == [error |-> "SyntaxError"]

\* '#' ident ('.' ident)* parsed as a compound selector, or SyntaxError
ParseSelector(sel) ==
    IF ~IsHashHref(sel) THEN SyntaxError
    ELSE LET parts == SplitDot(Tail(sel))
         IN  IF \E i \in DOMAIN parts : ~IsIdent(parts[i]) THEN SyntaxError
             ELSE [id |-> parts[1],
                   classes |-> {parts[i] : i \in DOMAIN parts \ {1}}]

Throws == -1
Null == 0

\* $(selector) = document.querySelector(selector), line 10: the first element in
\* document order that matches, Null if none does, Throws if the selector is not valid
querySelector(sel) ==
    LET p == ParseSelector(sel)
        hits == {i \in present : Document[i].id = p.id /\ p.classes \subseteq Document[i].cls}
    IN  IF p = SyntaxError THEN Throws
        ELSE IF hits = {} THEN Null
        ELSE CHOOSE i \in hits : \A j \in hits : i <= j

(***************************************************************************)
(* MobileMenu (script.js 29-75)                                            *)
(***************************************************************************)
MenuState == [t : BOOLEAN, m : BOOLEAN, o : {"", "hidden"}]

\* mutant: closeMenu leaves the scroll-lock on
closeMenu_KeepLock(st) == [t |-> FALSE, m |-> FALSE, o |-> st.o]

\* closeMenu(), lines 70-74
closeMenu(st) == [t |-> FALSE, m |-> FALSE, o |-> ""]

\* mutant: toggleMenu forgets the toggle control
toggleMenu_MenuOnly(st) ==
    [t |-> st.t, m |-> ~st.m, o |-> IF ~st.m THEN "hidden" ELSE ""]

\* toggleMenu(), lines 62-68
toggleMenu(st) ==
    [t |-> ~st.t, m |-> ~st.m, o |-> IF ~st.m THEN "hidden" ELSE ""]

\* mutant: init() only looks for the toggle
MenuBound_ToggleOnly == hasToggle

\* init() registered the listeners (line 38)
MenuBound == hasToggle /\ hasMenu

\* a listener of MobileMenu that runs reads classList of the toggle and of the menu
\* (lines 49, 63-64, 71-72): it throws a TypeError if one of them is null
MenuThrows == ~hasToggle \/ ~hasMenu

\* where a click can land
Targets == {"toggle", "link", "menu", "anchor", "outside"}
MenuContains(target) == target \in {"link", "menu"}
ToggleContains(target) == target = "toggle"

\* mutant: the document listener does not look at the toggle
IsOutside_MenuOnly(target) == ~MenuContains(target)

\* the condition of the document click listener, line 49
IsOutside(target) == ~MenuContains(target) /\ ~ToggleContains(target)

\* the menu after the click listeners of MobileMenu have run, in dispatch order:
\* the listener on the toggle or on the link, then the document listener
MenuAfterClick(st, target) ==
    LET s1 == IF target = "toggle" THEN toggleMenu(st) ELSE st
        s2 == IF target = "link" THEN closeMenu(s1) ELSE s1
    IN  IF IsOutside(target) THEN closeMenu(s2) ELSE s2

\* the menu after the keydown listener has run, lines 55-59
MenuAfterKey(st, key) == IF key = "Escape" THEN closeMenu(st) ELSE st

(***************************************************************************)
(* SmoothScroll (script.js 81-107)                                         *)
(***************************************************************************)
NoResult == [prevented |-> FALSE, threw |-> FALSE, scrolls |-> <<>>]

\* mutant: the header clearance is not subtracted
ScrollTop_NoMargin(top) == top

\* the top handed to window.scrollTo, line 97
ScrollTop(top) == top - ClearanceMargin

\* the click listener of an a[href^="#"], lines 88-104
SmoothClick(href) ==
    IF href = <<"#">> THEN NoResult
    ELSE LET target == querySelector(href)
         IN  IF target = Throws THEN [NoResult EXCEPT !.threw = TRUE]
             ELSE IF target = Null THEN NoResult
             ELSE [prevented |-> TRUE, threw |-> FALSE,
                   scrolls |-> <<ScrollTop(Document[target].offsetTop)>>]

(***************************************************************************)
(* Event dispatch                                                          *)
(***************************************************************************)
NoEvent == [kind |-> "none", target |-> "", href |-> <<>>, key |-> "", wasOpen |-> FALSE]
CurMenu == [t |-> toggleActive, m |-> menuActive, o |-> bodyOverflow]

SetMenu(st) ==
    /\ toggleActive' = st.t
    /\ menuActive' = st.m
    /\ bodyOverflow' = st.o

\* a click on `target`; href is the anchor's href when the target is an anchor
Click(target, href) ==
    /\ target = "toggle" => hasToggle
    /\ target \in {"link", "menu"} => hasMenu
    /\ target \in {"link", "anchor"} \/ href = <<>>
    /\ lastEvent' = [kind |-> "click", target |-> target, href |-> href, key |-> "",
                     wasOpen |-> menuActive]
    /\ eventTick' = 1 - eventTick
    /\ SetMenu(IF MenuBound THEN MenuAfterClick(CurMenu, target) ELSE CurMenu)
    /\ clickResult' = IF target \in {"link", "anchor"} /\ IsHashHref(href)
                      THEN SmoothClick(href) ELSE NoResult
    /\ menuError' = (MenuBound /\ MenuThrows)
    /\ UNCHANGED <<hasToggle, hasMenu>>
    /\ UNCHANGED <<debVars, hdrVars, docVars, revVars, actVars, appVars, typVars>>

ClickEvent == \E target \in Targets, href \in Hrefs \cup {<<>>} : Click(target, href)

Keys == {"Escape", "Enter"}

\* mutant: the Escape listener also removes the active marking of the nav links
Keydown_ClearLinks(key) ==
    /\ lastEvent' = [kind |-> "keydown", target |-> "", href |-> <<>>, key |-> key,
                     wasOpen |-> menuActive]
    /\ eventTick' = 1 - eventTick
    /\ SetMenu(IF MenuBound THEN MenuAfterKey(CurMenu, key) ELSE CurMenu)
    /\ clickResult' = NoResult
    /\ menuError' = (MenuBound /\ key = "Escape" /\ MenuThrows)
    /\ linkActive' = [i \in DOMAIN linkActive |-> linkActive[i] /\ key # "Escape"]
    /\ UNCHANGED <<hasToggle, hasMenu, navHrefs, lastSection>>
    /\ UNCHANGED <<debVars, hdrVars, docVars, revVars, appVars, typVars>>

Keydown(key) ==
    /\ lastEvent' = [kind |-> "keydown", target |-> "", href |-> <<>>, key |-> key,
                     wasOpen |-> menuActive]
    /\ eventTick' = 1 - eventTick
    /\ SetMenu(IF MenuBound THEN MenuAfterKey(CurMenu, key) ELSE CurMenu)
    /\ clickResult' = NoResult
    /\ menuError' = (MenuBound /\ key = "Escape" /\ MenuThrows)
    /\ UNCHANGED <<hasToggle, hasMenu>>
    /\ UNCHANGED <<debVars, hdrVars, docVars, revVars, actVars, appVars, typVars>>

KeydownEvent == \E key \in Keys : Keydown(key)

(***************************************************************************)
(* IntersectionObserver callbacks                                          *)
(***************************************************************************)
\* the lists of entries a callback may carry, over the observed targets
EntryLists(targets) ==
    UNION {[1..n -> [target : targets, isIntersecting : BOOLEAN]] : n \in 1..MaxEntries}

(***************************************************************************)
(* ScrollReveal (script.js 137-165)                                        *)
(***************************************************************************)
RevealElems == 1..NumReveal

\* mutant: the marking follows isIntersecting
RevealEntry_Follow(vis, entry) == [vis EXCEPT ![entry.target] = entry.isIntersecting]

\* mutant: every reported element is marked
RevealEntry_Always(vis, entry) == [vis EXCEPT ![entry.target] = TRUE]

\* the body of the forEach, lines 152-158
RevealEntry(vis, entry) ==
    IF entry.isIntersecting THEN [vis EXCEPT ![entry.target] = TRUE] ELSE vis

RECURSIVE RevealEntries(_, _)
RevealEntries(vis, entries) ==
    IF entries = <<>> THEN vis
    ELSE RevealEntries(RevealEntry(vis, Head(entries)), Tail(entries))

\* the observer callback, lines 151-159; it exists only if elements were found (line 144)
RevealCallback(entries) ==
    /\ RevealElems # {}
    /\ visible' = RevealEntries(visible, entries)
    /\ everSeen' = [e \in RevealElems |->
                      everSeen[e] \/ \E i \in DOMAIN entries :
                          entries[i].target = e /\ entries[i].isIntersecting]
    /\ leftView' = [e \in RevealElems |->
                      leftView[e] \/ (visible[e] /\ \E i \in DOMAIN entries :
                          entries[i].target = e /\ ~entries[i].isIntersecting)]
    /\ UNCHANGED <<debVars, hdrVars, docVars, menuVars, evtVars, actVars, appVars, typVars>>

RevealObserved == \E entries \in EntryLists(RevealElems) : RevealCallback(entries)

(***************************************************************************)
(* ActiveSectionHighlighter (script.js 288-324)                            *)
(***************************************************************************)
\* $$('section[id]'), line 290
sections == {i \in present : Document[i].section}
NavLinkIds == DOMAIN navHrefs
NoSection == <<"?">>

\* mutant: the marking of the other links is not removed
setActiveLink_NoRemove(links, id) ==
    [i \in DOMAIN links |-> links[i] \/ navHrefs[i] = Hash(id)]

\* setActiveLink(id), lines 316-323
setActiveLink(links, id) ==
    [i \in DOMAIN links |-> IF navHrefs[i] = Hash(id) THEN TRUE ELSE FALSE]

\* mutant: isIntersecting is not looked at
HighlightEntry_Always(links, entry) ==
    [i \in DOMAIN links |-> navHrefs[i] = Hash(Document[entry.target].id)]

\* the body of the forEach, lines 304-308
HighlightEntry(links, entry) ==
    IF entry.isIntersecting THEN setActiveLink(links, Document[entry.target].id) ELSE links

RECURSIVE HighlightEntries(_, _)
HighlightEntries(links, entries) ==
    IF entries = <<>> THEN links
    ELSE HighlightEntries(HighlightEntry(links, Head(entries)), Tail(entries))

\* the id of the last intersecting entry, or prev if no entry intersects
RECURSIVE LastIntersecting(_, _)
LastIntersecting(prev, entries) ==
    IF entries = <<>> THEN prev
    ELSE LastIntersecting(IF Head(entries).isIntersecting
                          THEN Document[Head(entries).target].id ELSE prev,
                          Tail(entries))

\* the observer callback, lines 303-309; it exists only if sections and links were
\* found (line 296)
HighlightCallback(entries) ==
    /\ sections # {}
    /\ NavLinkIds # {}
    /\ linkActive' = HighlightEntries(linkActive, entries)
    /\ lastSection' = LastIntersecting(lastSection, entries)
    /\ UNCHANGED navHrefs
    /\ UNCHANGED <<debVars, hdrVars, docVars, menuVars, evtVars, revVars, appVars, typVars>>

HighlightObserved == \E entries \in EntryLists(sections) : HighlightCallback(entries)

(***************************************************************************)
(* App (script.js 383-425)                                                 *)
(***************************************************************************)
Widgets == {"MobileMenu", "SmoothScroll", "ScrollHeader", "ScrollReveal",
            "ActiveSectionHighlighter"}

\* document.readyState in each phase of the document
readyState(phase) ==
    CASE phase = "loading" -> "loading"
      [] phase \in {"interactive", "ready"} -> "interactive"
      [] OTHER -> "complete"

\* mutant: init() does not look at readyState
ShouldDefer_Never(phase) == FALSE

\* the test of init(), line 390
ShouldDefer(phase) == readyState(phase) = "loading"

\* initComponents(), lines 397-421: one `new` per mandatory widget
initComponents ==
    /\ built' = [w \in Widgets |-> built[w] + 1]
    /\ builtEarly' = (builtEarly \/ readyState(docPhase) = "loading")

AppUnchanged ==
    UNCHANGED <<debVars, hdrVars, docVars, menuVars, evtVars, revVars, actVars, typVars>>

\* `new App()`, line 425: the script runs, in whatever phase the document is
RunScript ==
    /\ appState = "none"
    /\ IF ShouldDefer(docPhase)
       THEN appState' = "waiting" /\ deferred' = TRUE /\ UNCHANGED <<built, builtEarly>>
       ELSE appState' = "started" /\ initComponents /\ UNCHANGED deferred
    /\ UNCHANGED docPhase
    /\ AppUnchanged

\* the parser reaches the end of the document: readyState becomes "interactive"
ParsingEnds ==
    /\ docPhase = "loading"
    /\ docPhase' = "interactive"
    /\ UNCHANGED <<appState, built, builtEarly, deferred>>
    /\ AppUnchanged

\* DOMContentLoaded is dispatched: the listener of line 391 runs if it was registered
DOMContentLoaded ==
    /\ docPhase = "interactive"
    /\ docPhase' = "ready"
    /\ IF appState = "waiting"
       THEN appState' = "started" /\ initComponents
       ELSE UNCHANGED <<appState, built, builtEarly>>
    /\ UNCHANGED deferred
    /\ AppUnchanged

\* the load event: readyState becomes "complete"
Loaded ==
    /\ docPhase = "ready"
    /\ docPhase' = "complete"
    /\ UNCHANGED <<appState, built, builtEarly, deferred>>
    /\ AppUnchanged

(***************************************************************************)
(* TypingEffect (script.js 240-282)                                        *)
(***************************************************************************)
\* the length of currentWord.substring(0, n): n is clamped to 0..length
SubstringLen(len, n) == Max(0, Min(n, len))

\* charIndex after lines 261-267
NextChar(ci, deleting) == IF deleting THEN ci - 1 ELSE ci + 1

\* type(), lines 258-281; with no word at wordIndex, currentWord.substring throws
Type ==
    /\ ~typeError
    /\ charIndex <= MaxWordLen + 1
    /\ IF wordIndex + 1 \notin DOMAIN words
       THEN /\ typeError' = TRUE
            /\ UNCHANGED <<words, wordIndex, charIndex, isDeleting, textLen>>
       ELSE LET len == Len(words[wordIndex + 1])
                ci == NextChar(charIndex, isDeleting)
            IN  /\ textLen' = SubstringLen(len, ci)
                /\ charIndex' = ci
                /\ IF ~isDeleting /\ ci = len
                   THEN isDeleting' = TRUE /\ UNCHANGED wordIndex
                   ELSE IF isDeleting /\ ci = 0
                   THEN /\ isDeleting' = FALSE
                        /\ wordIndex' = (wordIndex + 1) % Len(words)
                   ELSE UNCHANGED <<isDeleting, wordIndex>>
                /\ UNCHANGED <<words, typeError>>
    /\ UNCHANGED <<debVars, hdrVars, docVars, menuVars, evtVars, revVars, actVars, appVars>>

(***************************************************************************)
(* Initial states: the page after App has constructed the widgets          *)
(***************************************************************************)
Pages == SUBSET (DOMAIN Document)
NavHrefSet == {Hash(Document[i].id) : i \in DOMAIN Document}
NavLists == UNION {[1..n -> NavHrefSet] : n \in 0..NumLinks}

InitDebounceVars(w) ==
    /\ wait = w
    /\ timers = {}
    /\ timeout = 0
    /\ elapsed = 0
    /\ lastArgs = 0
    /\ burstCalls = 0
    /\ burstExecs = 0
    /\ burstMissed = FALSE
    /\ lateCancel = FALSE
    /\ lastExec = NoExec
    /\ ahead = 0
    /\ burstArgs = {}

InitHeaderVars(h, y) ==
    /\ hasHeader = h
    /\ scrollY = y
    /\ scrolled = FALSE
    /\ scen = IF y = 0 THEN "init0" ELSE "off"
    /\ marks = <<>>
    /\ execAt150 = FALSE

InitMenuVars(t, m) ==
    /\ hasToggle = t
    /\ hasMenu = m
    /\ toggleActive = FALSE
    /\ menuActive = FALSE
    /\ bodyOverflow = ""

InitEventVars ==
    /\ lastEvent = NoEvent
    /\ eventTick = 0
    /\ clickResult = NoResult
    /\ menuError = FALSE

InitRevealVars ==
    /\ visible = [e \in RevealElems |-> FALSE]
    /\ everSeen = [e \in RevealElems |-> FALSE]
    /\ leftView = [e \in RevealElems |-> FALSE]

InitActiveVars(hrefs) ==
    /\ navHrefs = hrefs
    /\ linkActive = [i \in DOMAIN hrefs |-> FALSE]
    /\ lastSection = NoSection

\* the document in phase p; the widgets are built iff the App has started
InitAppVars(p, a) ==
    /\ docPhase = p
    /\ appState = a
    /\ built = [w \in Widgets |-> IF a = "started" THEN 1 ELSE 0]
    /\ builtEarly = FALSE
    /\ deferred = FALSE

\* the fields the constructor of TypingEffect sets, lines 242-249
InitTypingVars(ws) ==
    /\ words = ws
    /\ wordIndex = 0
    /\ charIndex = 0
    /\ isDeleting = FALSE
    /\ textLen = 0
    /\ typeError = FALSE

WordSet == UNION {[1..n -> {"a", "1"}] : n \in 0..MaxWordLen}
WordLists == UNION {[1..n -> WordSet] : n \in 0..MaxWords}

\* debounce with any wait, its callback that of ScrollHeader
InitDebounce ==
    /\ \E w \in WaitSet : InitDebounceVars(w)
    /\ InitHeaderVars(TRUE, 0)
    /\ present = {}
    /\ InitMenuVars(FALSE, FALSE)
    /\ InitEventVars
    /\ InitRevealVars
    /\ InitActiveVars(<<>>)
    /\ InitAppVars("complete", "started")
    /\ InitTypingVars(<<>>)

\* ScrollHeader on a page loaded at any offset
InitHeader ==
    /\ InitDebounceVars(HeaderWait)
    /\ \E h \in BOOLEAN, y \in ScrollOffsets : InitHeaderVars(h, y)
    /\ present = {}
    /\ InitMenuVars(FALSE, FALSE)
    /\ InitEventVars
    /\ InitRevealVars
    /\ InitActiveVars(<<>>)
    /\ InitAppVars("complete", "started")
    /\ InitTypingVars(<<>>)

\* MobileMenu and SmoothScroll on any page
InitClick ==
    /\ InitDebounceVars(HeaderWait)
    /\ InitHeaderVars(FALSE, 0)
    /\ present \in Pages
    /\ \E t \in BOOLEAN, m \in BOOLEAN : InitMenuVars(t, m)
    /\ InitEventVars
    /\ InitRevealVars
    /\ InitActiveVars(<<>>)
    /\ InitAppVars("complete", "started")
    /\ InitTypingVars(<<>>)

\* ScrollReveal on a page that scrolls (no header: the scroll listener is not set)
InitReveal ==
    /\ InitDebounceVars(HeaderWait)
    /\ InitHeaderVars(FALSE, 0)
    /\ present = {}
    /\ InitMenuVars(FALSE, FALSE)
    /\ InitEventVars
    /\ InitRevealVars
    /\ InitActiveVars(<<>>)
    /\ InitAppVars("complete", "started")
    /\ InitTypingVars(<<>>)

\* ActiveSectionHighlighter on any page with any navigation links
InitActive ==
    /\ InitDebounceVars(HeaderWait)
    /\ InitHeaderVars(FALSE, 0)
    /\ present \in Pages
    /\ InitMenuVars(FALSE, FALSE)
    /\ InitEventVars
    /\ InitRevealVars
    /\ \E hrefs \in NavLists : InitActiveVars(hrefs)
    /\ InitAppVars("complete", "started")
    /\ InitTypingVars(<<>>)

\* the script of any page, run in any phase of the document
InitApp ==
    /\ InitDebounceVars(HeaderWait)
    /\ \E h \in BOOLEAN : InitHeaderVars(h, 0)
    /\ present \in Pages
    /\ \E t \in BOOLEAN, m \in BOOLEAN : InitMenuVars(t, m)
    /\ InitEventVars
    /\ InitRevealVars
    /\ InitActiveVars(<<>>)
    /\ InitAppVars("loading", "none")
    /\ InitTypingVars(<<>>)

\* a TypingEffect constructed with any list of words
InitTyping ==
    /\ InitDebounceVars(HeaderWait)
    /\ InitHeaderVars(FALSE, 0)
    /\ present = {}
    /\ InitMenuVars(FALSE, FALSE)
    /\ InitEventVars
    /\ InitRevealVars
    /\ InitActiveVars(<<>>)
    /\ InitAppVars("complete", "started")
    /\ \E ws \in WordLists : InitTypingVars(ws)

\* every widget on one page: a header, the menu, a section with its nav link and
\* elements to reveal
InitPage ==
    /\ InitDebounceVars(HeaderWait)
    /\ InitHeaderVars(TRUE, 0)
    /\ present = {1}
    /\ InitMenuVars(TRUE, TRUE)
    /\ InitEventVars
    /\ InitRevealVars
    /\ InitActiveVars(<<Hash(Document[1].id)>>)
    /\ InitAppVars("complete", "started")
    /\ InitTypingVars(<<>>)

\* the events of that page
PageScroll == \E y \in {0, 150} : Scroll(y, 1)
PageClick == \E target \in {"toggle", "link", "outside"} :
                 Click(target, IF target = "link" THEN navHrefs[1] ELSE <<>>)
PageReveal == \E entries \in EntryLists({1}) : RevealCallback(entries)

NextTimer == ScrollEvent \/ TimerFire \/ Tick
NextClick == ClickEvent \/ KeydownEvent
NextReveal == RevealObserved \/ ScrollEvent
NextActive == HighlightObserved
NextApp == RunScript \/ ParsingEnds \/ DOMContentLoaded \/ Loaded
NextTyping == Type
NextPage == PageScroll \/ TimerFire \/ Tick \/ PageClick \/ KeydownEvent \/ PageReveal
            \/ HighlightObserved

SpecDebounce == InitDebounce /\ [][NextTimer]_vars
SpecHeader == InitHeader /\ [][NextTimer]_vars
SpecClick == InitClick /\ [][NextClick]_vars
SpecReveal == InitReveal /\ [][NextReveal]_vars
SpecActive == InitActive /\ [][NextActive]_vars
SpecApp == InitApp /\ [][NextApp]_vars
SpecTyping == InitTyping /\ [][NextTyping]_vars
\* ScrollHeader with the browser's scheduling: time passes while a timer waits, and
\* a timer that is due again and again is eventually run
SpecHeaderFair == SpecHeader /\ WF_vars(Tick) /\ SF_vars(TimerFire)
SpecPage == InitPage /\ [][NextPage]_vars

(***************************************************************************)
(* Properties                                                              *)
(***************************************************************************)

\* C1 (as claimed): every burst of calls, each less than wait after the previous
\* one, has func executed exactly once, and only once wait has elapsed since the
\* last call of the burst.
C1_ExactlyOncePerBurst ==
    /\ ~burstMissed
    /\ burstExecs <= 1
    /\ lastExec # NoExec => lastExec.gap >= wait
    /\ (burstCalls > 0 /\ timers = {}) => burstExecs = 1

\* C1 (amended): a burst has func executed at most once, never before wait has
\* elapsed since the last call, and exactly once when its timer has run; a burst
\* goes without its execution only when a later call cleared its timer after the
\* timer was due and before it ran.
C1_OncePerBurstUnlessCancelled ==
    /\ burstExecs <= 1
    /\ lastExec # NoExec => lastExec.gap >= wait
    /\ (burstCalls > 0 /\ timers = {}) => burstExecs = 1
    /\ burstMissed => lateCancel

C1_Witness == burstCalls >= 2 /\ timers = {} /\ burstExecs = 1 /\ ~burstMissed

\* C2: with the toggle and the menu present, every dispatched click or keydown
\* takes the menu's open state where the two-state machine takes it: a toggle click
\* flips it, a link click, an outside click and Escape close it, anything else
\* leaves it as it is.
MachineStep(open, ev) ==
    CASE ev.kind = "click" /\ ev.target = "toggle" -> ~open
      [] ev.kind = "click" /\ ev.target = "link" -> FALSE
      [] ev.kind = "click" /\ ev.target \in {"anchor", "outside"} -> FALSE
      [] ev.kind = "keydown" /\ ev.key = "Escape" -> FALSE
      [] OTHER -> open

C2_MenuFollowsMachine ==
    [][(MenuBound /\ eventTick' # eventTick)
         => menuActive' = MachineStep(menuActive, lastEvent')]_vars

C2_Witness ==
    MenuBound /\ lastEvent.kind = "click" /\ lastEvent.target = "toggle" /\ menuActive

\* C3: the page scroll-lock is on exactly when the menu is open.
C3_LockIffOpen == (bodyOverflow = "hidden") <=> menuActive

C3_Witness == menuActive /\ bodyOverflow = "hidden" /\ lastEvent.kind = "click"

\* C4 (as claimed): at most one navigation link carries the active marking.
ActiveLinks == {i \in NavLinkIds : linkActive[i]}

C4_AtMostOneActive == Cardinality(ActiveLinks) <= 1

\* C4 (amended): all links that carry the active marking have the same href, so
\* at most one link carries it when no two navigation links share an href.
C4_ActiveLinksShareHref ==
    /\ \A i, j \in ActiveLinks : navHrefs[i] = navHrefs[j]
    /\ (\A i, j \in NavLinkIds : navHrefs[i] = navHrefs[j] => i = j)
         => Cardinality(ActiveLinks) <= 1

C4_Witness ==
    /\ lastSection # NoSection
    /\ Cardinality(ActiveLinks) = 1
    /\ Cardinality(NavLinkIds) >= 2
    /\ \A i, j \in NavLinkIds : navHrefs[i] = navHrefs[j] => i = j

\* C5: once a section has intersected, the links carrying the active marking are
\* exactly those whose href references the most recently intersecting section, the
\* last intersecting entry of a callback counting as the most recent.
C5_ActiveIsMostRecent ==
    lastSection # NoSection =>
        \A i \in NavLinkIds : linkActive[i] <=> navHrefs[i] = Hash(lastSection)

C5_Witness ==
    /\ lastSection # NoSection
    /\ \E i, j \in NavLinkIds : linkActive[i] /\ ~linkActive[j]
                                 /\ navHrefs[i] = Hash(lastSection)

\* C6: after every execution of the debounced scroll handler the marker is on the
\* header exactly when the offset s the execution read is above 100.
C6_MarkerIffAbove ==
    lastExec # NoExec => (lastExec.after <=> lastExec.s > 100)

C6_Witness == lastExec.s = 100 /\ lastExec.before /\ ~lastExec.after /\ ~scrolled

\* the scenario: loaded at offset 0, scrolled to 150, scrolled back to 50, and the
\* debounced handler has run for the last scroll
ScenarioDone == hasHeader /\ scen = "back50" /\ timers = {}

\* C7 (as claimed): the scenario adds the marker, then removes it, and ends with
\* the header not marked.
C7_AddedThenRemoved ==
    ScenarioDone => (marks = <<"add", "remove">> /\ ~scrolled)

\* C7 (amended): the scenario ends with the header not marked; the marker is added
\* and then removed when the handler ran while the page was at 150, and is never
\* added when the scroll back to 50 came before that run.
C7_EndsNotScrolled ==
    ScenarioDone =>
        /\ ~scrolled
        /\ marks = IF execAt150 THEN <<"add", "remove">> ELSE <<>>

C7_Witness == ScenarioDone /\ marks = <<"add", "remove">> /\ ~scrolled

\* the element the fragment of a hash link names: the first with that id
FragmentTarget(href) ==
    LET hits == {i \in present : Document[i].id = Tail(href)}
    IN  IF hits = {} THEN Null ELSE CHOOSE i \in hits : \A j \in hits : i <= j

HashLinkClicked ==
    /\ lastEvent.kind = "click"
    /\ lastEvent.target \in {"link", "anchor"}
    /\ IsHashHref(lastEvent.href)

\* C8: a click on a hash link other than '#' whose target element exists cancels
\* the default navigation and issues exactly one scroll request, to the target's
\* top offset minus 100.
C8_ExistingTargetScrolls ==
    (HashLinkClicked /\ lastEvent.href # <<"#">> /\ FragmentTarget(lastEvent.href) # Null)
        => /\ clickResult.prevented
           /\ clickResult.scrolls =
                  <<Document[FragmentTarget(lastEvent.href)].offsetTop - 100>>

\* C9: a click on a hash link with no matching target element, the bare '#'
\* included, produces no scroll request and does not throw.
C9_MissingTargetIsNoop ==
    (HashLinkClicked /\ FragmentTarget(lastEvent.href) = Null)
        => (clickResult.scrolls = <<>> /\ ~clickResult.threw)

\* C10: no step removes the visible marking from an element that carries it.
C10_VisibleStays ==
    [][\A e \in RevealElems : visible[e] => visible'[e]]_vars

C10_Witness == \E e \in RevealElems : visible[e] /\ leftView[e] /\ scrollY # 0

\* C11: every mandatory widget is constructed at most once, never while the
\* document is loading, and exactly once as soon as the script has run and the
\* document is past loading.
C11_BuiltOnceWhenReady ==
    \A w \in Widgets :
        /\ built[w] <= 1
        /\ ~builtEarly
        /\ appState = "started" <=> built[w] = 1
        /\ (appState # "none" /\ docPhase \in {"ready", "complete"}) => built[w] = 1

C11_Witness ==
    deferred /\ appState = "started" /\ \A w \in Widgets : built[w] = 1

\* C12: with the toggle or the menu absent no click or keydown changes an active
\* marker or the scroll-lock, and no listener throws.
C12_AbsentIsNoop ==
    ~(hasToggle /\ hasMenu) =>
        (~toggleActive /\ ~menuActive /\ bodyOverflow = "" /\ ~menuError)

C12_Witness ==
    hasToggle /\ ~hasMenu /\ lastEvent.kind = "click" /\ lastEvent.target = "toggle"

\* C13: a step of a MobileMenu listener changes no active nav link, not the
\* scrolled marker of the header and no visible marking; every other step (the
\* ScrollHeader callback, a timer, an observer callback) changes neither the
\* active markers of the menu nor the scroll-lock.
C13_NoCrossTalk ==
    [][/\ eventTick' # eventTick => UNCHANGED <<linkActive, scrolled, visible>>
       /\ eventTick' = eventTick => UNCHANGED <<toggleActive, menuActive, bodyOverflow>>]_vars

C13_Witness ==
    /\ menuActive /\ bodyOverflow = "hidden"
    /\ scrolled /\ lastExec # NoExec
    /\ visible[1]
    /\ linkActive[1]

\* C14: at most one timer is pending, it is due wait after the most recent call,
\* func never runs before wait has elapsed since the most recent call, and func
\* has not run more often than the wrapper was called.
C14_OneTimerReset ==
    /\ Cardinality(timers) <= 1
    /\ \A t \in timers : t.remaining = wait - elapsed
    /\ lastExec # NoExec => lastExec.gap >= wait
    /\ ahead >= 0

C14_Witness ==
    burstCalls >= 2 /\ elapsed = 0 /\ Cardinality(timers) = 1 /\ lastExec # NoExec

\* the debounced callback waits to run / has run since the last scroll event and the
\* marker shows whether the current offset is above the threshold
Pending == timers # {}
Settled == timers = {} /\ scrolled = (scrollY > scrollThreshold)
\* at least wait has passed since the most recent scroll event
Quiet == elapsed = wait

C16_VisibleIffSeen == \A e \in RevealElems : visible[e] <=> everSeen[e]

C16_Witness ==
    \E e, f \in RevealElems : visible[e] /\ everSeen[e] /\ ~visible[f] /\ ~everSeen[f]

\* C17: for a list of words, charIndex is never negative and never above the
\* length of the current word, and wordIndex is an index of the list.
C17_IndicesInRange ==
    words # <<>> =>
        /\ wordIndex \in 0..(Len(words) - 1)
        /\ charIndex >= 0
        /\ wordIndex + 1 \in DOMAIN words => charIndex <= Len(words[wordIndex + 1])

\* C18: the active marker of the toggle control and that of the menu are equal.
C18_ToggleMatchesMenu == toggleActive <=> menuActive

C18_Witness ==
    toggleActive /\ menuActive /\ lastEvent.kind = "click" /\ lastEvent.target = "toggle"

\* C19: after a click on a link of the open menu whose hash target exists, the
\* menu is closed, the scroll-lock is released, default navigation was cancelled
\* and exactly one scroll request, to the target's top offset minus 100, was made.
C19_LinkClickClosesAndScrolls ==
    (/\ MenuBound
     /\ lastEvent.kind = "click" /\ lastEvent.target = "link" /\ lastEvent.wasOpen
     /\ IsHashHref(lastEvent.href) /\ lastEvent.href # <<"#">>
     /\ FragmentTarget(lastEvent.href) # Null)
        => /\ ~menuActive
           /\ bodyOverflow = ""
           /\ clickResult.prevented
           /\ clickResult.scrolls =
                  <<Document[FragmentTarget(lastEvent.href)].offsetTop - 100>>

\* C20: func receives the arguments of the most recent call of the wrapper.
C20_ArgsOfLatestCall ==
    lastExec # NoExec => lastExec.args = lastExec.latest

C20_Witness ==
    /\ lastExec # NoExec
    /\ timers = {}
    /\ burstExecs = 1
    /\ Cardinality(burstArgs) >= 2
    /\ lastExec.args = lastArgs

====
